---- MODULE Spec2Model ----
(***************************************************************************)
(* Model of the optimization toolkit: main.py selects one of two problems, *)
(* the problem's optimize_shipments builds a mixed-integer linear program, *)
(* problem.solve() hands it to the solver, print_solution reads the        *)
(* solver's status and variable values back.                               *)
(*                                                                         *)
(* A linear expression is a function from variable keys to integer         *)
(* coefficients; a constraint is [coef, sense, rhs] meaning                *)
(* sum(coef[v] * x[v]) sense rhs, the form in which PuLP stores            *)
(* "lhs <= rhs" after moving the variables to the left.  Fractions of the  *)
(* inputs (discount multipliers, delivery tolerance) are carried in        *)
(* hundredths, an exact scaling of both sides of the constraint or of the  *)
(* whole objective.                                                        *)
(***************************************************************************)
EXTENDS Integers, Sequences, FiniteSets, TLC

VARIABLES selected, params, problem, status, values, report, pc

vars == <<selected, params, problem, status, values, report, pc>>

---------------------------------------------------------------------------
(* Bounds of the inputs.                                                   *)
MaxTarget == 2
MaxTierMin == 2
MaxCapacity == 2

(* pulp's status codes, as imported and compared in print_solution.        *)
LpStatusOptimal == 1
LpStatusNotSolved == 0
LpStatusInfeasible == -1
LpStatusUnbounded == -2
(* the literal -3 print_solution compares with: "Undefined (solver-specific)" *)
LpStatusUndefined == -3

(* pulp's dict from status code to status name; LpStatus[code] raises      *)
(* KeyError for a code that is not one of its keys                         *)
LpStatus ==
  (LpStatusOptimal :> "Optimal") @@ (LpStatusNotSolved :> "Not Solved")
    @@ (LpStatusInfeasible :> "Infeasible") @@ (LpStatusUnbounded :> "Unbounded")
    @@ (LpStatusUndefined :> "Undefined")

PROBLEMS == {"warehouse_shipments", "carrier_earned_discount"}

(* range(n) of Python *)
range(n) == 0 .. (n - 1)

(* the elements of a Python list, modelled as a sequence *)
Elems(s) == {s[k] : k \in 1 .. Len(s)}

---------------------------------------------------------------------------
(* Linear expressions and constraints                                      *)

RECURSIVE SumOver(_, _)
SumOver(S, f) ==
  IF S = {} THEN 0
  ELSE LET e == CHOOSE e \in S : TRUE
       IN f[e] + SumOver(S \ {e}, f)

(* value of a linear expression under an assignment x *)
Dot(coef, x) == SumOver(DOMAIN coef, [v \in DOMAIN coef |-> coef[v] * x[v]])

(* lpSum of variables, each with coefficient k *)
lpSum(S, k) == [v \in S |-> k]

Holds(c, x) ==
  LET lhs == Dot(c.coef, x)
  IN CASE c.sense = "==" -> lhs = c.rhs
       [] c.sense = "<=" -> lhs <= c.rhs
       [] c.sense = ">=" -> lhs >= c.rhs

(* LpVariable(name, lowBound, upBound, cat="Integer") *)
LpInteger(key, lo, up) == [key |-> key, lowBound |-> lo, upBound |-> up, cat |-> "Integer"]

(* LpVariable(name, cat="Binary") *)
LpBinary(key) == [key |-> key, lowBound |-> 0, upBound |-> 1, cat |-> "Binary"]

NoProblem == [variables |-> <<>>, objective |-> <<>>, constraints |-> {}]

---------------------------------------------------------------------------
(* carrier_earned_discount.optimize_shipments                              *)
(* p: [num_years, carriers, destinations, shipment_target, shipment_cost,  *)
(*     tier_min_quantity, discount_rate]; lists are sequences, so          *)
(* tier_min_quantity[tier] of the code is p.tier_min_quantity[tier + 1],   *)
(* shipment_target[year] is p.shipment_target[year + 1]; discount_rate is  *)
(* in hundredths (1.0 = 100).                                              *)

Tiers(p) == range(Len(p.tier_min_quantity))

shipment_at_tier(year, carrier, tier, dest) == <<"ship", year, carrier, tier, dest>>

tier_flag(year, carrier, tier) == <<"tier", year, carrier, tier>>

(* variant: every year's variables bounded by the first year's target *)
ShipmentVariablesFirstYearBound(p) ==
  LET D == Len(p.destinations)
      T == Len(p.tier_min_quantity)
      C == Len(p.carriers)
  IN [k \in 1 .. (p.num_years * C * T * D) |->
        LET i == k - 1
            dest == p.destinations[(i % D) + 1]
            tier == (i \div D) % T
            carrier == p.carriers[((i \div (D * T)) % C) + 1]
            year == i \div (D * T * C)
        IN LpInteger(shipment_at_tier(year, carrier, tier, dest), 0,
                     p.shipment_target[1][dest])]

(* the integer variables, in the order the loops create them:              *)
(* year -> carrier -> tier -> destination, bounded by the year's target    *)
ShipmentVariables(p) ==
  LET D == Len(p.destinations)
      T == Len(p.tier_min_quantity)
      C == Len(p.carriers)
  IN [k \in 1 .. (p.num_years * C * T * D) |->
        LET i == k - 1
            dest == p.destinations[(i % D) + 1]
            tier == (i \div D) % T
            carrier == p.carriers[((i \div (D * T)) % C) + 1]
            year == i \div (D * T * C)
        IN LpInteger(shipment_at_tier(year, carrier, tier, dest), 0,
                     p.shipment_target[year + 1][dest])]

(* the binary tier-selection variables: year -> carrier -> tier *)
TierVariables(p) ==
  LET T == Len(p.tier_min_quantity)
      C == Len(p.carriers)
  IN [k \in 1 .. (p.num_years * C * T) |->
        LET i == k - 1
            tier == i % T
            carrier == p.carriers[((i \div T) % C) + 1]
            year == i \div (T * C)
        IN LpBinary(tier_flag(year, carrier, tier))]

(* variant: the cost without the discount multiplier *)
TierTotalCostUndiscounted(p) ==
  [v \in {shipment_at_tier(year, carrier, tier, dest) :
            year \in range(p.num_years), carrier \in Elems(p.carriers),
            tier \in Tiers(p), dest \in Elems(p.destinations)} |->
      p.shipment_cost[v[3]][v[5]] * 100]

(* total_cost: shipment * shipment_cost * discount_rate *)
TierTotalCost(p) ==
  [v \in {shipment_at_tier(year, carrier, tier, dest) :
            year \in range(p.num_years), carrier \in Elems(p.carriers),
            tier \in Tiers(p), dest \in Elems(p.destinations)} |->
      p.shipment_cost[v[3]][v[5]] * p.discount_rate[v[3]][v[4] + 1]]

(* variant: at most one tier *)
OneTierActiveLE(p) ==
  {[coef |-> lpSum({tier_flag(year, carrier, tier) : tier \in Tiers(p)}, 1),
    sense |-> "<=", rhs |-> 1] :
     year \in range(p.num_years), carrier \in Elems(p.carriers)}

(* only 1 earned discount tier may be active per year:                     *)
(* lpSum(tier_flag[year][carrier]) == 1                                    *)
OneTierActive(p) ==
  {[coef |-> lpSum({tier_flag(year, carrier, tier) : tier \in Tiers(p)}, 1),
    sense |-> "==", rhs |-> 1] :
     year \in range(p.num_years), carrier \in Elems(p.carriers)}

(* variant: every tier gated by the flag of tier 0 *)
ShipmentsWhenTierActiveOtherTier(p) ==
  {[coef |-> (shipment_at_tier(year, carrier, tier, dest) :> 1)
             @@ (tier_flag(year, carrier, 0) :> -(p.shipment_target[year + 1][dest])),
    sense |-> "<=", rhs |-> 0] :
     year \in range(p.num_years), carrier \in Elems(p.carriers),
     tier \in Tiers(p), dest \in Elems(p.destinations)}

(* shipments can only occur when tier is active:                           *)
(* shipment_at_tier <= shipment_target[year][dest] * tier_flag             *)
ShipmentsWhenTierActive(p) ==
  {[coef |-> (shipment_at_tier(year, carrier, tier, dest) :> 1)
             @@ (tier_flag(year, carrier, tier) :> -(p.shipment_target[year + 1][dest])),
    sense |-> "<=", rhs |-> 0] :
     year \in range(p.num_years), carrier \in Elems(p.carriers),
     tier \in Tiers(p), dest \in Elems(p.destinations)}

(* variant: one shipment short of the minimum is accepted *)
TierMinimumMetOffByOne(p) ==
  {[coef |-> lpSum({shipment_at_tier(year, carrier, tier, dest) :
                      dest \in Elems(p.destinations)}, 1)
             @@ (tier_flag(year, carrier, tier) :> -(p.tier_min_quantity[tier + 1] - 1)),
    sense |-> ">=", rhs |-> 0] :
     year \in range(p.num_years), carrier \in Elems(p.carriers), tier \in Tiers(p)}

(* must meet minimum shipments for an active discount tier:                *)
(* tier_total >= tier_min_quantity[tier] * tier_flag                       *)
TierMinimumMet(p) ==
  {[coef |-> lpSum({shipment_at_tier(year, carrier, tier, dest) :
                      dest \in Elems(p.destinations)}, 1)
             @@ (tier_flag(year, carrier, tier) :> -(p.tier_min_quantity[tier + 1])),
    sense |-> ">=", rhs |-> 0] :
     year \in range(p.num_years), carrier \in Elems(p.carriers), tier \in Tiers(p)}

(* variant: the target as an upper limit *)
ShipmentTargetsHitLE(p) ==
  {[coef |-> lpSum({shipment_at_tier(year, carrier, tier, dest) :
                      carrier \in Elems(p.carriers), tier \in Tiers(p)}, 1),
    sense |-> "<=", rhs |-> p.shipment_target[year + 1][dest]] :
     year \in range(p.num_years), dest \in Elems(p.destinations)}

(* must hit shipment targets each year:                                    *)
(* destination_total == shipment_target[year][dest]                        *)
ShipmentTargetsHit(p) ==
  {[coef |-> lpSum({shipment_at_tier(year, carrier, tier, dest) :
                      carrier \in Elems(p.carriers), tier \in Tiers(p)}, 1),
    sense |-> "==", rhs |-> p.shipment_target[year + 1][dest]] :
     year \in range(p.num_years), dest \in Elems(p.destinations)}

(* discount_rate[carrier][tier] of the objective is a list subscript: it   *)
(* raises IndexError when a carrier's list has fewer entries than          *)
(* tier_min_quantity; entries beyond the tiers are never read              *)
DiscountRateTooShort(p) ==
  \E carrier \in Elems(p.carriers) :
    Len(p.discount_rate[carrier]) < Len(p.tier_min_quantity)

CarrierOptimizeShipments(p) ==
  [variables |-> ShipmentVariables(p) \o TierVariables(p),
   objective |-> TierTotalCost(p),
   constraints |-> OneTierActive(p) \cup ShipmentsWhenTierActive(p)
                   \cup TierMinimumMet(p) \cup ShipmentTargetsHit(p)]

---------------------------------------------------------------------------
(* warehouse_shipments.optimize_shipments                                  *)
(* p: [warehouses, destinations, target_distribution, shipment_capacity,   *)
(*     warehouse_cost, shipment_cost, target_delivery_days,                *)
(*     delivery_tolerance, delivery_estimate]; delivery_tolerance is in    *)
(* hundredths (0.5 = 50).  A warehouse or destination name is the sequence *)
(* of the pieces "_" separates in it: <<"a", "b">> is the name a_b.        *)

shipment_count(i, j) == <<"shipment_count", i, j>>

warehouse_usage(i) == <<"warehouse_usage", i>>

(* shipment_count[(i, j)]: integer, 0 .. shipment_capacity[i][j] *)
ShipmentCountVariables(p) ==
  LET D == Len(p.destinations)
  IN [k \in 1 .. (Len(p.warehouses) * D) |->
        LET i == p.warehouses[((k - 1) \div D) + 1]
            j == p.destinations[((k - 1) % D) + 1]
        IN LpInteger(shipment_count(i, j), 0, p.shipment_capacity[i][j])]

(* LpVariable.dicts("warehouse_usage", warehouses, cat="Binary") *)
WarehouseUsageVariables(p) ==
  [k \in 1 .. Len(p.warehouses) |-> LpBinary(warehouse_usage(p.warehouses[k]))]

(* variant: the comparison turned around *)
delivery_target_failure_inverted(p, i, j) ==
  IF p.delivery_estimate[i][j] < p.target_delivery_days THEN 1 ELSE 0

(* delivery_target_failure[(i, j)]: 1 if the route misses the target *)
delivery_target_failure(p, i, j) ==
  IF p.delivery_estimate[i][j] > p.target_delivery_days THEN 1 ELSE 0

(* variant: the fixed cost of a used warehouse taken off the total *)
NetworkTotalCostRebate(p) ==
  [v \in {shipment_count(i, j) : i \in Elems(p.warehouses), j \in Elems(p.destinations)}
         \cup {warehouse_usage(i) : i \in Elems(p.warehouses)} |->
      IF v[1] = "shipment_count" THEN p.shipment_cost[v[2]][v[3]]
      ELSE -(p.warehouse_cost[v[2]])]

(* total_cost: shipment cost of every route plus the fixed cost of every   *)
(* used warehouse                                                          *)
NetworkTotalCost(p) ==
  [v \in {shipment_count(i, j) : i \in Elems(p.warehouses), j \in Elems(p.destinations)}
         \cup {warehouse_usage(i) : i \in Elems(p.warehouses)} |->
      IF v[1] = "shipment_count" THEN p.shipment_cost[v[2]][v[3]]
      ELSE p.warehouse_cost[v[2]]]

(* variant: the capacity without the usage variable *)
WarehouseUsageUngated(p) ==
  {[coef |-> (shipment_count(i, j) :> 1),
    sense |-> "<=", rhs |-> p.shipment_capacity[i][j]] :
     i \in Elems(p.warehouses), j \in Elems(p.destinations)}

(* Warehouse_Usage_{i}_{j}:                                                *)
(* shipment_count[(i, j)] <= shipment_capacity[i][j] * warehouse_usage[i]  *)
WarehouseUsageConstraints(p) ==
  {[coef |-> (shipment_count(i, j) :> 1)
             @@ (warehouse_usage(i) :> -(p.shipment_capacity[i][j])),
    sense |-> "<=", rhs |-> 0] :
     i \in Elems(p.warehouses), j \in Elems(p.destinations)}

(* variants: an inequality in place of the equality *)
DistributionAtLeast(p) ==
  {[coef |-> lpSum({shipment_count(i, j) : i \in Elems(p.warehouses)}, 1),
    sense |-> ">=", rhs |-> p.target_distribution[j]] :
     j \in Elems(p.destinations)}

DistributionAtMost(p) ==
  {[coef |-> lpSum({shipment_count(i, j) : i \in Elems(p.warehouses)}, 1),
    sense |-> "<=", rhs |-> p.target_distribution[j]] :
     j \in Elems(p.destinations)}

(* Distribution_{j}: lpSum(shipment_count[(i, j)]) == target_distribution[j] *)
DistributionConstraints(p) ==
  {[coef |-> lpSum({shipment_count(i, j) : i \in Elems(p.warehouses)}, 1),
    sense |-> "==", rhs |-> p.target_distribution[j]] :
     j \in Elems(p.destinations)}

(* variant: a strict inequality, failed_shipments < tolerance * total *)
DeliveryTargetStrict(p) ==
  {[coef |-> [v \in {shipment_count(i, j) : i \in Elems(p.warehouses)} |->
                100 * delivery_target_failure(p, v[2], j) - p.delivery_tolerance],
    sense |-> "<=", rhs |-> -1] :
     j \in Elems(p.destinations)}

(* Delivery_Target_{j}: failed_shipments <= delivery_tolerance * total_to_dest, *)
(* stored as failed_shipments - delivery_tolerance * total_to_dest <= 0 and     *)
(* multiplied by 100                                                            *)
DeliveryTargetConstraints(p) ==
  {[coef |-> [v \in {shipment_count(i, j) : i \in Elems(p.warehouses)} |->
                100 * delivery_target_failure(p, v[2], j) - p.delivery_tolerance],
    sense |-> "<=", rhs |-> 0] :
     j \in Elems(p.destinations)}

WarehouseOptimizeShipments(p) ==
  [variables |-> ShipmentCountVariables(p) \o WarehouseUsageVariables(p),
   objective |-> NetworkTotalCost(p),
   constraints |-> WarehouseUsageConstraints(p) \cup DistributionConstraints(p)
                   \cup DeliveryTargetConstraints(p)]

---------------------------------------------------------------------------
(* problem.solve(): the solver is outside the repository.  It is modelled  *)
(* by its contract: the assignments it may return are those that give      *)
(* every variable a value of its declared range and satisfy every          *)
(* constraint of the problem; an optimal one minimises the objective.      *)
(* The search branches on the binary variables first and cuts a branch as  *)
(* soon as a constraint whose variables are all assigned fails.            *)

BranchOrder(prob) ==
  SelectSeq(prob.variables, LAMBDA v : v.cat = "Binary")
    \o SelectSeq(prob.variables, LAMBDA v : v.cat # "Binary")

RECURSIVE Search(_, _, _, _)
Search(cs, order, k, x) ==
  IF k > Len(order) THEN {x}
  ELSE LET v == order[k]
           assigned == DOMAIN x \cup {v.key}
           due == {c \in cs : v.key \in DOMAIN c.coef /\ DOMAIN c.coef \subseteq assigned}
       IN UNION {Search(cs, order, k + 1, y) :
                   y \in {z \in {x @@ (v.key :> n) : n \in v.lowBound .. v.upBound} :
                            \A c \in due : Holds(c, z)}}

FeasibleSet(prob) ==
  IF \E c \in prob.constraints : DOMAIN c.coef = {} /\ ~Holds(c, <<>>) THEN {}
  ELSE Search(prob.constraints, BranchOrder(prob), 1, <<>>)

Objective(prob, x) == Dot(prob.objective, x)

OptimalSet(prob) ==
  LET F == FeasibleSet(prob)
  IN {x \in F : \A y \in F : Objective(prob, x) <= Objective(prob, y)}

---------------------------------------------------------------------------
(* print_solution                                                          *)

(* dict.get(key, default) *)
get(d, key, default) == IF key \in DOMAIN d THEN d[key] ELSE default

(* the name PuLP gives a variable, as the pieces "_" separates:            *)
(* f"shipment_count_{i}_{j}" and "warehouse_usage_" + i                    *)
VarName(key) ==
  IF key[1] = "shipment_count" THEN <<"shipment", "count">> \o key[2] \o key[3]
  ELSE <<"warehouse", "usage">> \o key[2]

startswith(name, prefix) ==
  Len(name) >= Len(prefix) /\ SubSeq(name, 1, Len(prefix)) = prefix

(* the loop over problem.variables(): shipment_counts keyed by the first   *)
(* two pieces of the name after "shipment_count_", warehouse_usage keyed   *)
(* by all of the name after "warehouse_usage_"                             *)
RECURSIVE ExtractShipmentCounts(_, _, _)
ExtractShipmentCounts(variables, x, k) ==
  IF k = 0 THEN <<>>
  ELSE LET earlier == ExtractShipmentCounts(variables, x, k - 1)
           name == VarName(variables[k].key)
       IN IF startswith(name, <<"shipment", "count">>)
          THEN LET parts == SubSeq(name, 3, Len(name))
                   parsed == << <<parts[1]>>, <<parts[2]>> >>
               IN [q \in DOMAIN earlier \cup {parsed} |->
                     IF q = parsed THEN x[variables[k].key] ELSE earlier[q]]
          ELSE earlier

RECURSIVE ExtractWarehouseUsage(_, _, _)
ExtractWarehouseUsage(variables, x, k) ==
  IF k = 0 THEN <<>>
  ELSE LET earlier == ExtractWarehouseUsage(variables, x, k - 1)
           name == VarName(variables[k].key)
       IN IF ~startswith(name, <<"shipment", "count">>)
             /\ startswith(name, <<"warehouse", "usage">>)
          THEN LET i == SubSeq(name, 3, Len(name))
               IN [q \in DOMAIN earlier \cup {i} |->
                     IF q = i THEN x[variables[k].key] ELSE earlier[q]]
          ELSE earlier

(* warehouse_shipments.print_solution; for a status that is not optimal   *)
(* it prints "Solution Status: " + LpStatus[status] and one fixed line     *)
WarehousePrintSolution(p, prob, st, x) ==
  IF st # LpStatusOptimal
  THEN IF st \notin DOMAIN LpStatus THEN [exception |-> "KeyError"]
       ELSE [status_name |-> LpStatus[st], diagnosis |-> "No optimal solution found."]
  ELSE
    LET shipment_counts == ExtractShipmentCounts(prob.variables, x, Len(prob.variables))
        usage == ExtractWarehouseUsage(prob.variables, x, Len(prob.variables))
        W == Elems(p.warehouses)
        count(i, j) == get(shipment_counts, <<i, j>>, 0)
        dest_total(j) == SumOver(W, [i \in W |-> count(i, j)])
        dest_on_time(j) ==
          LET onTime == {i \in W : p.delivery_estimate[i][j] <= p.target_delivery_days}
          IN SumOver(onTime, [i \in onTime |-> count(i, j)])
    IN [status_name |-> LpStatus[st],
        diagnosis |-> "Optimal",
        total_cost |-> Objective(prob, x),
        shipment_counts |-> shipment_counts,
        warehouse_usage |-> usage,
        fixed_cost_total |->
          SumOver(W, [i \in W |-> p.warehouse_cost[i] * get(usage, i, 0)]),
        variable_cost_total |->
          LET R == {r \in W \X Elems(p.destinations) : count(r[1], r[2]) > 0}
          IN SumOver(R, [r \in R |-> count(r[1], r[2]) * p.shipment_cost[r[1]][r[2]]]),
        dest_actual |-> [j \in Elems(p.destinations) |-> dest_total(j)],
        dest_target |-> [j \in Elems(p.destinations) |-> get(p.target_distribution, j, 0)],
        delivery |->
          [j \in {d \in Elems(p.destinations) : dest_total(d) > 0} |->
             [dest_total |-> dest_total(j),
              dest_on_time |-> dest_on_time(j),
              dest_late |-> dest_total(j) - dest_on_time(j)]]]

(* the sum of all destination targets over all years *)
TotalTarget(p) ==
  LET YD == range(p.num_years) \X Elems(p.destinations)
  IN SumOver(YD, [yd \in YD |-> p.shipment_target[yd[1] + 1][yd[2]]])

(* the first tier of (year, carrier) whose flag is above 0.5, as the      *)
(* one-element sequence <<tier>>; None is the empty sequence               *)
ActiveTier(p, x, year, carrier) ==
  LET on == {tier \in Tiers(p) : x[tier_flag(year, carrier, tier)] > 0}
  IN IF on = {} THEN << >>
     ELSE << CHOOSE tier \in on : \A other \in on : tier <= other >>

(* SHIPMENT ALLOCATION BY YEAR, one row per (year, carrier, destination):  *)
(* over the tiers with shipments > 0, dest_shipments += shipments and      *)
(* dest_cost += shipments * discount_rate[carrier][tier] (in hundredths)   *)
AllocationRow(p, x, year, carrier, dest) ==
  LET used == {tier \in Tiers(p) : x[shipment_at_tier(year, carrier, tier, dest)] > 0}
  IN [dest_shipments |->
        SumOver(used, [tier \in used |-> x[shipment_at_tier(year, carrier, tier, dest)]]),
      dest_cost |->
        SumOver(used, [tier \in used |->
                         x[shipment_at_tier(year, carrier, tier, dest)]
                           * p.discount_rate[carrier][tier + 1]])]

(* YEAR TOTAL: the rows of the year added up over carriers and destinations *)
YearTotal(p, x, year) ==
  LET CD == Elems(p.carriers) \X Elems(p.destinations)
      row == [cd \in CD |-> AllocationRow(p, x, year, cd[1], cd[2])]
  IN [year_total_shipments |-> SumOver(CD, [cd \in CD |-> row[cd].dest_shipments]),
      year_total_cost |-> SumOver(CD, [cd \in CD |-> row[cd].dest_cost])]

(* carrier_earned_discount.print_solution: status_name = LpStatus[code]    *)
(* comes first, then the branch on the status code, and for an optimal     *)
(* status the allocation by year, the destination summary over all years   *)
(* and the carrier summary                                                 *)
CarrierPrintSolution(p, prob, st, x) ==
  IF st \notin DOMAIN LpStatus THEN [exception |-> "KeyError"]
  ELSE IF st = LpStatusOptimal THEN
    [status_name |-> LpStatus[st],
     diagnosis |-> "Optimal",
     total_cost |-> Objective(prob, x),
     active_tier |->
       [yc \in range(p.num_years) \X Elems(p.carriers) |-> ActiveTier(p, x, yc[1], yc[2])],
     allocation |->
       [ycd \in range(p.num_years) \X Elems(p.carriers) \X Elems(p.destinations) |->
          AllocationRow(p, x, ycd[1], ycd[2], ycd[3])],
     year_total |-> [year \in range(p.num_years) |-> YearTotal(p, x, year)],
     carrier_summary |->
       [cy \in {yc \in Elems(p.carriers) \X range(p.num_years) :
                  ActiveTier(p, x, yc[2], yc[1]) # << >>} |->
          LET TD == Tiers(p) \X Elems(p.destinations)
          IN [active_tier |-> ActiveTier(p, x, cy[2], cy[1]),
              carrier_year_shipments |->
                SumOver(TD, [td \in TD |-> x[shipment_at_tier(cy[2], cy[1], td[1], td[2])]])]],
     destination_summary |->
       [dest \in Elems(p.destinations) |->
          LET S == {v \in DOMAIN x : v[1] = "ship" /\ v[5] = dest}
              total_shipments == SumOver(S, [v \in S |-> x[v]])
              total_target ==
                SumOver(range(p.num_years),
                        [year \in range(p.num_years) |-> p.shipment_target[year + 1][dest]])
          IN [total_shipments |-> total_shipments,
              total_target |-> total_target,
              ok |-> total_shipments = total_target]]]
  ELSE IF st = LpStatusInfeasible THEN
    [status_name |-> LpStatus[st],
     diagnosis |-> "PROBLEM IS INFEASIBLE",
     total_needed |-> TotalTarget(p),
     carriers |-> Len(p.carriers),
     destinations |-> Len(p.destinations),
     years |-> p.num_years,
     tier_min_quantity |-> p.tier_min_quantity]
  ELSE IF st = LpStatusUnbounded THEN
    [status_name |-> LpStatus[st], diagnosis |-> "PROBLEM IS UNBOUNDED"]
  ELSE IF st = LpStatusNotSolved THEN
    [status_name |-> LpStatus[st], diagnosis |-> "PROBLEM NOT SOLVED"]
  ELSE IF st = LpStatusUndefined THEN
    [status_name |-> LpStatus[st], diagnosis |-> "SOLVER RETURNED UNDEFINED STATUS"]
  ELSE [status_name |-> LpStatus[st], diagnosis |-> "UNKNOWN STATUS", status_code |-> st]

---------------------------------------------------------------------------
(* The inputs get_user_input may return, within the bounds.                *)

(* (num_years, destinations) *)
CarrierShapes == {<<1, <<"A">> >>, <<1, <<"A", "B">> >>, <<2, <<"A">> >>}

CarrierNames == <<"UPS", "FedEx">>

(* cost per shipment of a warehouse *)
UnitCosts == {1, 2}

(* cost per shipment of UPS and of FedEx: any value >= 0 is accepted *)
CarrierUnitCosts == {<<0, 1>>, <<1, 1>>, <<1, 2>>, <<2, 1>>}

(* discount multipliers of tiers 0 and 1, in hundredths *)
DiscountSchedules == {<<100, 100>>, <<100, 90>>}

CarrierInput(shape, target, cost, m, rate) ==
  [num_years |-> shape[1],
   carriers |-> CarrierNames,
   destinations |-> shape[2],
   shipment_target |-> target,
   shipment_cost |-> [carrier \in Elems(CarrierNames) |->
                        [dest \in Elems(shape[2]) |-> cost[carrier]]],
   tier_min_quantity |-> <<0, m>>,
   discount_rate |-> rate]

(* (warehouses, destinations); <<"a", "b">> is the warehouse named a_b *)
WarehouseShapes ==
  {<< << <<"a">> >>, << <<"x">> >> >>,
   << << <<"a">> >>, << <<"x">>, <<"y">> >> >>,
   << << <<"a">>, <<"b">> >>, << <<"x">> >> >>,
   << << <<"a", "b">> >>, << <<"x">> >> >>}

FixedCosts == {0, 5}

(* delivery_tolerance, in hundredths *)
Tolerances == {0, 50, 100}

DeliveryDays == {2, 3}

WarehouseInput(shape, target, capacity, fixed, cost, tolerance, estimate) ==
  [warehouses |-> shape[1],
   destinations |-> shape[2],
   target_distribution |-> target,
   shipment_capacity |-> capacity,
   warehouse_cost |-> fixed,
   shipment_cost |-> [i \in Elems(shape[1]) |-> [j \in Elems(shape[2]) |-> cost[i]]],
   target_delivery_days |-> 2,
   delivery_tolerance |-> tolerance,
   delivery_estimate |-> estimate]

---------------------------------------------------------------------------
(* main(): get_user_input, optimize_shipments on its result,               *)
(* problem.solve(), print_solution                                         *)

InitCarrier ==
  /\ selected = "carrier_earned_discount"
  /\ \E shape \in CarrierShapes :
       \E target \in [1 .. shape[1] -> [Elems(shape[2]) -> 0 .. MaxTarget]],
          cost \in {[carrier \in Elems(CarrierNames) |-> IF carrier = CarrierNames[1] THEN c[1] ELSE c[2]] :
                    c \in CarrierUnitCosts},
          m \in 1 .. MaxTierMin,
          rate \in [Elems(CarrierNames) -> DiscountSchedules] :
         params = CarrierInput(shape, target, cost, m, rate)

InitWarehouse ==
  /\ selected = "warehouse_shipments"
  /\ \E shape \in WarehouseShapes :
       \E target \in [Elems(shape[2]) -> 0 .. MaxTarget],
          capacity \in [Elems(shape[1]) -> [Elems(shape[2]) -> 0 .. MaxCapacity]],
          fixed \in [Elems(shape[1]) -> FixedCosts],
          cost \in [Elems(shape[1]) -> UnitCosts],
          tolerance \in Tolerances,
          estimate \in [Elems(shape[1]) -> [Elems(shape[2]) -> DeliveryDays]] :
         params = WarehouseInput(shape, target, capacity, fixed, cost, tolerance, estimate)

Init ==
  /\ InitCarrier \/ InitWarehouse
  /\ problem = NoProblem
  /\ status = LpStatusNotSolved
  /\ values = <<>>
  /\ report = <<>>
  /\ pc = "input"

(* optimize_shipments returns the problem, or the exception of its first   *)
(* failing subscript leaves main                                           *)
OptimizeShipments ==
  /\ pc = "input"
  /\ IF selected = "carrier_earned_discount" /\ DiscountRateTooShort(params)
     THEN /\ report' = [exception |-> "IndexError"]
          /\ pc' = "raised"
          /\ UNCHANGED problem
     ELSE /\ problem' = (IF selected = "carrier_earned_discount"
                         THEN CarrierOptimizeShipments(params)
                         ELSE WarehouseOptimizeShipments(params))
          /\ pc' = "built"
          /\ UNCHANGED report
  /\ UNCHANGED <<selected, params, status, values>>

(* the solver proves an assignment optimal *)
SolveOptimal ==
  /\ pc = "built"
  /\ \E x \in OptimalSet(problem) :
       /\ values' = x
       /\ status' = LpStatusOptimal
  /\ pc' = "solved"
  /\ UNCHANGED <<selected, params, problem, report>>

(* the solver proves that no assignment satisfies the constraints *)
SolveInfeasible ==
  /\ pc = "built"
  /\ FeasibleSet(problem) = {}
  /\ status' = LpStatusInfeasible
  /\ pc' = "solved"
  /\ UNCHANGED <<selected, params, problem, values, report>>

(* the solver stops before it has proved optimality: the variables hold    *)
(* the feasible assignment found so far and the status stays Not Solved    *)
SolveInterrupted ==
  /\ pc = "built"
  /\ \E x \in FeasibleSet(problem) : values' = x
  /\ status' = LpStatusNotSolved
  /\ pc' = "solved"
  /\ UNCHANGED <<selected, params, problem, report>>

PrintSolution ==
  /\ pc = "solved"
  /\ report' = (IF selected = "carrier_earned_discount"
                THEN CarrierPrintSolution(params, problem, status, values)
                ELSE WarehousePrintSolution(params, problem, status, values))
  /\ pc' = (IF "exception" \in DOMAIN report' THEN "raised" ELSE "done")
  /\ UNCHANGED <<selected, params, problem, status, values>>

Next ==
  \/ OptimizeShipments
  \/ SolveOptimal
  \/ SolveInfeasible
  \/ SolveInterrupted
  \/ PrintSolution

Spec == Init /\ [][Next]_vars

---------------------------------------------------------------------------
(* optimize_shipments and print_solution called directly: the arguments a  *)
(* caller may pass, and any status and variable values in the problem      *)
(* handed to print_solution                                                *)

(* tier_min_quantity lists of two tiers, whether or not they start at 0    *)
(* and increase, and [0, 2, 1], which get_user_input accepts (it requires  *)
(* the entered minimums to be positive, not to be in order)                *)
CallTierLists ==
  {<<a, b>> : a \in 0 .. 1, b \in 0 .. MaxTierMin} \cup {<<0, 2, 1>>}

(* (num_years, tier_min_quantity) *)
CallShapes ==
  {<<1, tiers>> : tiers \in CallTierLists} \cup {<<2, <<0, 1>> >>}

(* discount lists one shorter than, as long as, and one longer than n tiers *)
CallDiscountLists(n) ==
  {SubSeq(<<100, 90, 80, 70>>, 1, k) : k \in {n - 1, n, n + 1}}

CallCarrierInput(shape, target, rate) ==
  [num_years |-> shape[1],
   carriers |-> <<"UPS">>,
   destinations |-> <<"A">>,
   shipment_target |-> target,
   shipment_cost |-> [carrier \in {"UPS"} |-> [dest \in {"A"} |-> 1]],
   tier_min_quantity |-> shape[2],
   discount_rate |-> [carrier \in {"UPS"} |-> rate]]

CallWarehouseShapes ==
  {<< << <<"a">> >>, << <<"x">> >> >>,
   << << <<"a">>, <<"b">> >>, << <<"x">> >> >>}

CallInit ==
  /\ \/ /\ selected = "carrier_earned_discount"
        /\ \E shape \in CallShapes :
             \E target \in [1 .. shape[1] -> [{"A"} -> 0 .. MaxTarget]],
                rate \in CallDiscountLists(Len(shape[2])) :
               params = CallCarrierInput(shape, target, rate)
     \/ /\ selected = "warehouse_shipments"
        /\ \E shape \in CallWarehouseShapes :
             \E target \in [Elems(shape[2]) -> 0 .. MaxTarget],
                fixed \in [Elems(shape[1]) -> FixedCosts] :
               params = WarehouseInput(shape, target,
                          [i \in Elems(shape[1]) |-> [j \in Elems(shape[2]) |-> MaxCapacity]],
                          fixed, [i \in Elems(shape[1]) |-> 1], 100,
                          [i \in Elems(shape[1]) |-> [j \in Elems(shape[2]) |-> 2]])
  /\ problem = NoProblem
  /\ status = LpStatusNotSolved
  /\ values = <<>>
  /\ report = <<>>
  /\ pc = "input"

(* the status codes a problem may carry: pulp's five and one that is not   *)
(* a key of LpStatus                                                       *)
InjectedStatuses ==
  {LpStatusOptimal, LpStatusNotSolved, LpStatusInfeasible, LpStatusUnbounded,
   LpStatusUndefined, 2}

(* any values of the variables, whether or not they satisfy the constraints *)
InjectedAssignments(prob) ==
  {f @@ g : f \in [{prob.variables[k].key :
                      k \in {n \in DOMAIN prob.variables : prob.variables[n].cat = "Integer"}}
                   -> 0 .. MaxTarget],
            g \in [{prob.variables[k].key :
                      k \in {n \in DOMAIN prob.variables : prob.variables[n].cat = "Binary"}}
                   -> 0 .. 1]}

(* the problem comes back with some status; with the optimal status its    *)
(* variables carry some values                                             *)
InjectSolution ==
  /\ pc = "built"
  /\ \E st \in InjectedStatuses :
       /\ status' = st
       /\ IF st = LpStatusOptimal
          THEN \E x \in InjectedAssignments(problem) : values' = x
          ELSE UNCHANGED values
  /\ pc' = "solved"
  /\ UNCHANGED <<selected, params, problem, report>>

CallNext ==
  \/ OptimizeShipments
  \/ InjectSolution
  \/ PrintSolution

CallSpec == CallInit /\ [][CallNext]_vars

---------------------------------------------------------------------------
(* Properties                                                              *)

Carrier == selected = "carrier_earned_discount"

Network == selected = "warehouse_shipments"

(* the solver has returned and the variables hold an assignment that       *)
(* satisfies the constraints                                               *)
Assigned == pc \in {"solved", "done"} /\ status # LpStatusInfeasible

Years == range(params.num_years)

FlagOf(year, carrier, tier) == values[tier_flag(year, carrier, tier)]

FlowOf(year, carrier, tier, dest) == values[shipment_at_tier(year, carrier, tier, dest)]

CountOf(i, j) == values[shipment_count(i, j)]

UsageOf(i) == values[warehouse_usage(i)]

(* C1: in every assignment that satisfies the constraints of the          *)
(* tiered-discount model, every (carrier, year) has exactly one tier flag  *)
(* equal to 1 and all its other tier flags equal to 0.                     *)
C1_TierExclusivity ==
  (Carrier /\ Assigned) =>
    \A year \in Years, carrier \in Elems(params.carriers) :
      \E tier \in Tiers(params) :
        /\ FlagOf(year, carrier, tier) = 1
        /\ \A other \in Tiers(params) \ {tier} : FlagOf(year, carrier, other) = 0

(* the two carriers of a year are on different tiers *)
C1_Witness ==
  /\ Carrier /\ Assigned
  /\ \E year \in Years :
       /\ FlagOf(year, "UPS", 1) = 1
       /\ FlagOf(year, "FedEx", 0) = 1

(* C2: in every feasible assignment of the tiered-discount model, the      *)
(* flow into each destination in each year, summed over all carriers and   *)
(* tiers, equals that year's target of the destination exactly.            *)
C2_TargetEquality ==
  (Carrier /\ Assigned) =>
    \A year \in Years, dest \in Elems(params.destinations) :
      LET S == Elems(params.carriers) \X Tiers(params)
      IN SumOver(S, [q \in S |-> FlowOf(year, q[1], q[2], dest)])
           = params.shipment_target[year + 1][dest]

(* a target of 2 met by one shipment of each carrier *)
C2_Witness ==
  /\ Carrier /\ Assigned
  /\ \E year \in Years, dest \in Elems(params.destinations) :
       /\ params.shipment_target[year + 1][dest] = 2
       /\ \E t1 \in Tiers(params), t2 \in Tiers(params) :
            FlowOf(year, "UPS", t1, dest) = 1 /\ FlowOf(year, "FedEx", t2, dest) = 1

(* C3: in every feasible assignment of the tiered-discount model, a flow   *)
(* greater than 0 at a (year, carrier, tier, destination) implies that the *)
(* tier's flag is 1; the flow at an inactive tier is 0.                    *)
C3_FlowGatedByTier ==
  (Carrier /\ Assigned) =>
    \A year \in Years, carrier \in Elems(params.carriers),
       tier \in Tiers(params), dest \in Elems(params.destinations) :
      /\ FlowOf(year, carrier, tier, dest) > 0 => FlagOf(year, carrier, tier) = 1
      /\ FlagOf(year, carrier, tier) = 0 => FlowOf(year, carrier, tier, dest) = 0

(* a carrier ships at tier 1, its flag set, and nothing at its tier 0 *)
C3_Witness ==
  /\ Carrier /\ Assigned
  /\ \E year \in Years, carrier \in Elems(params.carriers),
        dest \in Elems(params.destinations) :
       /\ FlowOf(year, carrier, 1, dest) > 0
       /\ FlagOf(year, carrier, 1) = 1
       /\ FlagOf(year, carrier, 0) = 0
       /\ params.shipment_target[year + 1][dest] > 0

(* C4: in every feasible assignment of the tiered-discount model, a tier   *)
(* whose flag is 1 for a (year, carrier) carries, summed over all          *)
(* destinations, at least tier_min_quantity[tier] shipments of that        *)
(* carrier in that year.                                                   *)
C4_TierMinimum ==
  (Carrier /\ Assigned) =>
    \A year \in Years, carrier \in Elems(params.carriers), tier \in Tiers(params) :
      FlagOf(year, carrier, tier) = 1 =>
        LET D == Elems(params.destinations)
        IN SumOver(D, [dest \in D |-> FlowOf(year, carrier, tier, dest)])
             >= params.tier_min_quantity[tier + 1]

(* tier 1 with a minimum of 2 is active and is met exactly, by two         *)
(* destinations together                                                   *)
C4_Witness ==
  /\ Carrier /\ Assigned
  /\ params.tier_min_quantity[2] = 2
  /\ \E year \in Years, carrier \in Elems(params.carriers) :
       /\ FlagOf(year, carrier, 1) = 1
       /\ Len(params.destinations) = 2
       /\ FlowOf(year, carrier, 1, "A") = 1
       /\ FlowOf(year, carrier, 1, "B") = 1

(* C5: in every feasible assignment of the network model, a positive       *)
(* shipment_count from a warehouse implies that the warehouse's usage      *)
(* variable is 1; a warehouse that is not activated ships nothing.         *)
C5_FlowGatedByWarehouse ==
  (Network /\ Assigned) =>
    \A i \in Elems(params.warehouses), j \in Elems(params.destinations) :
      /\ CountOf(i, j) > 0 => UsageOf(i) = 1
      /\ UsageOf(i) = 0 => CountOf(i, j) = 0

(* of two warehouses with capacity, one is used and ships, the other is    *)
(* not activated                                                           *)
C5_Witness ==
  /\ Network /\ Assigned
  /\ \E i \in Elems(params.warehouses), k \in Elems(params.warehouses),
        j \in Elems(params.destinations) :
       /\ i # k
       /\ CountOf(i, j) > 0 /\ UsageOf(i) = 1
       /\ UsageOf(k) = 0 /\ params.shipment_capacity[k][j] > 0

(* C6: in every feasible assignment of the network model, the              *)
(* shipment_count into each destination summed over all warehouses equals  *)
(* the destination's target_distribution exactly.                          *)
C6_DistributionEquality ==
  (Network /\ Assigned) =>
    \A j \in Elems(params.destinations) :
      LET W == Elems(params.warehouses)
      IN SumOver(W, [i \in W |-> CountOf(i, j)]) = params.target_distribution[j]

(* a target of 2 below the total capacity, met by two warehouses *)
C6_Witness ==
  /\ Network /\ Assigned
  /\ \E j \in Elems(params.destinations) :
       /\ params.target_distribution[j] = 2
       /\ \A i \in Elems(params.warehouses) :
            CountOf(i, j) = 1 /\ params.shipment_capacity[i][j] = 2
       /\ Len(params.warehouses) = 2

(* the routes into j whose delivery estimate exceeds the target days *)
LateRoutes(p, j) ==
  {i \in Elems(p.warehouses) : p.delivery_estimate[i][j] > p.target_delivery_days}

LateFlow(j) ==
  LET L == LateRoutes(params, j) IN SumOver(L, [i \in L |-> CountOf(i, j)])

Inbound(j) ==
  LET W == Elems(params.warehouses) IN SumOver(W, [i \in W |-> CountOf(i, j)])

(* the late count of the per-destination statistics; a destination whose   *)
(* extracted total is 0 gets no line, so no late shipment is reported      *)
ReportedLate(j) ==
  IF j \in DOMAIN report.delivery THEN report.delivery[j].dest_late ELSE 0

ReportedTotal(j) ==
  IF j \in DOMAIN report.delivery THEN report.delivery[j].dest_total ELSE 0

(* the constraint half of C7: late flow <= tolerance * inbound flow *)
C7_ConstraintPart ==
  (Network /\ Assigned) =>
    \A j \in Elems(params.destinations) :
      100 * LateFlow(j) <= params.delivery_tolerance * Inbound(j)

(* the report half of C7: the late count print_solution derives is the     *)
(* late flow of the solution                                               *)
C7_ReportPart ==
  (Network /\ pc = "done" /\ status = LpStatusOptimal) =>
    \A j \in Elems(params.destinations) :
      /\ ReportedLate(j) = LateFlow(j)
      /\ 100 * ReportedLate(j) <= params.delivery_tolerance * ReportedTotal(j)

(* C7: for every destination of the network model, the flow over late      *)
(* routes is at most delivery_tolerance times the inbound flow in every    *)
(* feasible assignment, and the late count print_solution derives for the  *)
(* destination is that same quantity, so the reported late share never     *)
(* exceeds the tolerance.                                                  *)
C7_LateShareWithinTolerance == C7_ConstraintPart /\ C7_ReportPart

(* C8: with delivery_tolerance = 0, every feasible assignment of the       *)
(* network model has flow 0 on every late (warehouse, destination) pair.   *)
C8_ZeroToleranceNoLateFlow ==
  (Network /\ Assigned /\ params.delivery_tolerance = 0) =>
    \A i \in Elems(params.warehouses), j \in Elems(params.destinations) :
      params.delivery_estimate[i][j] > params.target_delivery_days => CountOf(i, j) = 0

(* tolerance 0, a late route with capacity left empty while the on-time    *)
(* route of the same destination carries the whole target                  *)
C8_Witness ==
  /\ Network /\ Assigned /\ params.delivery_tolerance = 0
  /\ \E i \in Elems(params.warehouses), k \in Elems(params.warehouses),
        j \in Elems(params.destinations) :
       /\ params.delivery_estimate[i][j] > params.target_delivery_days
       /\ params.shipment_capacity[i][j] > 0
       /\ CountOf(i, j) = 0
       /\ params.delivery_estimate[k][j] <= params.target_delivery_days
       /\ CountOf(k, j) = params.target_distribution[j]
       /\ params.target_distribution[j] > 0

AllRoutesLate(p, j) == LateRoutes(p, j) = Elems(p.warehouses)

(* the inputs without destination j *)
WithoutDestination(p, j) ==
  [p EXCEPT !.destinations = SelectSeq(p.destinations, LAMBDA d : d # j)]

(* C9: with delivery_tolerance = 0 and a destination all of whose routes   *)
(* are late, the network model has no feasible assignment when the         *)
(* destination's target is positive; when its target is 0 the model is     *)
(* feasible whenever the model of the other destinations is.               *)
C9_AllLateDestination ==
  (Network /\ pc \in {"solved", "done"} /\ params.delivery_tolerance = 0) =>
    \A j \in Elems(params.destinations) :
      AllRoutesLate(params, j) =>
        /\ params.target_distribution[j] > 0 => status = LpStatusInfeasible
        /\ (/\ params.target_distribution[j] = 0
            /\ status = LpStatusInfeasible)
             => FeasibleSet(WarehouseOptimizeShipments(WithoutDestination(params, j))) = {}

(* tolerance 0, destination x late on its only route: with a target of 0   *)
(* for x the solver returns an optimal solution that serves y              *)
C9_Witness ==
  /\ Network /\ pc = "solved" /\ params.delivery_tolerance = 0
  /\ Len(params.destinations) = 2
  /\ AllRoutesLate(params, <<"x">>)
  /\ params.target_distribution[<<"x">>] = 0
  /\ params.target_distribution[<<"y">>] > 0
  /\ status = LpStatusOptimal
  /\ CountOf(<<"a">>, <<"y">>) = params.target_distribution[<<"y">>]

(* the other case of C9: the same destination with a positive target, the  *)
(* other destination satisfiable on its own, and the solver reports        *)
(* infeasibility                                                           *)
C9_WitnessInfeasible ==
  /\ Network /\ pc = "solved" /\ params.delivery_tolerance = 0
  /\ Len(params.destinations) = 2
  /\ AllRoutesLate(params, <<"x">>)
  /\ params.target_distribution[<<"x">>] > 0
  /\ params.shipment_capacity[<<"a">>][<<"x">>] >= params.target_distribution[<<"x">>]
  /\ FeasibleSet(WarehouseOptimizeShipments(WithoutDestination(params, <<"x">>))) # {}
  /\ status = LpStatusInfeasible

(* C10: with a single warehouse whose capacity to some destination is      *)
(* below the destination's target, the network model has no feasible       *)
(* assignment: the solver's status is infeasible.                          *)
C10_CapacityShortfall ==
  (Network /\ pc \in {"solved", "done"} /\ Len(params.warehouses) = 1) =>
    \A j \in Elems(params.destinations) :
      params.shipment_capacity[params.warehouses[1]][j] < params.target_distribution[j]
        => status = LpStatusInfeasible

(* one warehouse, every route on time, capacity 1 for a target of 2, the   *)
(* other destination within capacity: the status is infeasible             *)
C10_Witness ==
  /\ Network /\ pc = "solved" /\ Len(params.warehouses) = 1
  /\ Len(params.destinations) = 2
  /\ \A j \in Elems(params.destinations) : LateRoutes(params, j) = {}
  /\ params.shipment_capacity[<<"a">>][<<"x">>] = 1
  /\ params.target_distribution[<<"x">>] = 2
  /\ params.shipment_capacity[<<"a">>][<<"y">>] >= params.target_distribution[<<"y">>]
  /\ status = LpStatusInfeasible

---------------------------------------------------------------------------
(* A single destination whose target is 0                                  *)

FlowKeys(prob) ==
  {prob.variables[k].key : k \in {n \in DOMAIN prob.variables : prob.variables[n].cat = "Integer"}}

ActivationKeys(prob) ==
  {prob.variables[k].key : k \in {n \in DOMAIN prob.variables : prob.variables[n].cat = "Binary"}}

SingleZeroTarget ==
  /\ Len(params.destinations) = 1
  /\ IF Carrier
     THEN \A year \in Years : params.shipment_target[year + 1][params.destinations[1]] = 0
     ELSE params.target_distribution[params.destinations[1]] = 0

(* every optimal assignment has all flows 0 and objective 0 *)
ZeroFlowZeroCost(prob) ==
  \A x \in OptimalSet(prob) :
    /\ \A v \in FlowKeys(prob) : x[v] = 0
    /\ Objective(prob, x) = 0

(* v is 1 in every assignment of F, the assignments that satisfy the       *)
(* constraints                                                             *)
Forced(F, v) == \A x \in F : x[v] = 1

(* C11 as stated: with a single destination of target 0, every optimal    *)
(* solution has all flows 0 and objective 0, and no tier flag and no       *)
(* warehouse_usage variable is 1 in every feasible assignment.             *)
C11_NoActivationForced ==
  (pc = "built" /\ SingleZeroTarget) =>
    \A F \in {FeasibleSet(problem)} :
      /\ ZeroFlowZeroCost(problem)
      /\ \A v \in ActivationKeys(problem) : ~Forced(F, v)

(* C11: with a single destination of target 0, a feasible assignment       *)
(* exists, every optimal solution has all flows 0 and objective 0, no      *)
(* warehouse_usage variable is 1 in every feasible assignment, and in the  *)
(* tiered model the flag of a tier is 1 in every feasible assignment       *)
(* exactly when the tier's minimum is 0 (tier 0), the flag of a tier with  *)
(* a positive minimum being 0 in all of them.                              *)
C11_ZeroTargetSingleDestination ==
  (pc = "built" /\ SingleZeroTarget) =>
    \A F \in {FeasibleSet(problem)} :
      /\ F # {}
      /\ ZeroFlowZeroCost(problem)
      /\ Network => \A v \in ActivationKeys(problem) : ~Forced(F, v)
      /\ Carrier =>
           \A year \in Years, carrier \in Elems(params.carriers), tier \in Tiers(params) :
             /\ Forced(F, tier_flag(year, carrier, tier))
                  <=> params.tier_min_quantity[tier + 1] = 0
             /\ params.tier_min_quantity[tier + 1] > 0 =>
                  \A x \in F : x[tier_flag(year, carrier, tier)] = 0

C11_Witness ==
  /\ pc = "built"
  /\ Carrier
  /\ SingleZeroTarget
  /\ params.num_years = 2
  /\ \E F \in {FeasibleSet(problem)} :
       /\ F # {}
       /\ Forced(F, tier_flag(1, "UPS", 0))
       /\ ~Forced(F, tier_flag(1, "UPS", 1))

---------------------------------------------------------------------------
(* A tier whose minimum exceeds all the targets together                   *)

(* C12: in the tiered-discount model, a tier whose minimum quantity is     *)
(* greater than the sum of all destination targets over all years has its  *)
(* flag at 0 for every carrier and year in every assignment that satisfies *)
(* the constraints.                                                        *)
C12_UnreachableTierNeverSelected ==
  (Carrier /\ Assigned) =>
    \A tier \in Tiers(params) :
      params.tier_min_quantity[tier + 1] > TotalTarget(params) =>
        \A year \in Years, carrier \in Elems(params.carriers) :
          FlagOf(year, carrier, tier) = 0

C12_Witness ==
  /\ Carrier
  /\ Assigned
  /\ TotalTarget(params) > 0
  /\ params.tier_min_quantity[2] > TotalTarget(params)
  /\ \E year \in Years, carrier \in Elems(params.carriers), dest \in Elems(params.destinations) :
       FlowOf(year, carrier, 0, dest) > 0
  /\ \A year \in Years, carrier \in Elems(params.carriers) : FlagOf(year, carrier, 1) = 0

---------------------------------------------------------------------------
(* One year, one destination, tiers [0, m], target >= m: carrier A with a  *)
(* tier-1 multiplier below 1 against carrier B without discount            *)

Solved == pc \in {"solved", "done"} /\ status = LpStatusOptimal

(* A's discounted unit cost is below B's unit cost *)
DiscountedCheaper(A, B) ==
  LET dest == params.destinations[1]
  IN /\ A # B
     /\ params.discount_rate[A][2] < 100
     /\ \A tier \in Tiers(params) : params.discount_rate[B][tier + 1] = 100
     /\ params.shipment_cost[A][dest] * params.discount_rate[A][2]
          < params.shipment_cost[B][dest] * 100

OnePeriodOneDestination ==
  /\ Carrier
  /\ params.num_years = 1
  /\ Len(params.destinations) = 1
  /\ Len(params.tier_min_quantity) = 2
  /\ params.tier_min_quantity[1] = 0
  /\ params.shipment_target[1][params.destinations[1]] >= params.tier_min_quantity[2]

(* the whole target goes through A at tier 1 and nothing through B *)
AllThroughTierOne(A, B) ==
  LET dest == params.destinations[1]
  IN /\ FlagOf(0, A, 1) = 1
     /\ FlowOf(0, A, 1, dest) = params.shipment_target[1][dest]
     /\ \A tier \in Tiers(params) : FlowOf(0, B, tier, dest) = 0

(* C13 as stated: whenever unit_cost_A * r < unit_cost_B, every optimal    *)
(* solution has A's tier-1 flag at 1, A's tier-1 flow equal to the target  *)
(* and every flow of B at 0.                                               *)
C13_DiscountedCarrierTakesAll ==
  (Solved /\ OnePeriodOneDestination) =>
    \A A \in Elems(params.carriers), B \in Elems(params.carriers) :
      DiscountedCheaper(A, B) => AllThroughTierOne(A, B)

(* C13: the same, for a carrier A whose unit cost is positive.             *)
C13_PositiveCostDiscountedCarrierTakesAll ==
  (Solved /\ OnePeriodOneDestination) =>
    \A A \in Elems(params.carriers), B \in Elems(params.carriers) :
      (DiscountedCheaper(A, B) /\ params.shipment_cost[A][params.destinations[1]] > 0)
        => AllThroughTierOne(A, B)

C13_Witness ==
  /\ Solved
  /\ OnePeriodOneDestination
  /\ params.tier_min_quantity[2] = 2
  /\ DiscountedCheaper("UPS", "FedEx")
  /\ params.shipment_cost["UPS"]["A"] = 1
  /\ params.shipment_cost["FedEx"]["A"] = 1
  /\ AllThroughTierOne("UPS", "FedEx")

---------------------------------------------------------------------------
(* Malformed tier and discount lists                                       *)

StrictlyIncreasingFromZero(tiers) ==
  /\ tiers[1] = 0
  /\ \A k \in 1 .. (Len(tiers) - 1) : tiers[k] < tiers[k + 1]

(* optimize_shipments has ended with a configuration error and no model *)
Rejected ==
  /\ pc = "raised"
  /\ report = [exception |-> "ConfigurationError"]
  /\ problem = NoProblem

(* C14: once optimize_shipments of the tiered-discount formulation has     *)
(* been called with a tier_min_quantity list that is not strictly          *)
(* increasing from 0, it has failed with a configuration error and has     *)
(* returned no model.                                                      *)
C14_RejectsUnorderedTiers ==
  (Carrier /\ pc # "input" /\ ~StrictlyIncreasingFromZero(params.tier_min_quantity))
    => Rejected

(* C15: once optimize_shipments of the tiered-discount formulation has     *)
(* been called with a carrier whose discount_rate list is shorter or       *)
(* longer than tier_min_quantity, it has failed with a ConfigurationError  *)
(* and has built no model.                                                 *)
C15_RejectsDiscountLengthMismatch ==
  (Carrier /\ pc # "input"
     /\ \E carrier \in Elems(params.carriers) :
          Len(params.discount_rate[carrier]) # Len(params.tier_min_quantity))
    => Rejected

---------------------------------------------------------------------------
(* print_solution on a status that is not optimal                          *)

StatusCategory(st) ==
  CASE st = LpStatusInfeasible -> "infeasible"
    [] st = LpStatusUnbounded -> "unbounded"
    [] st = LpStatusNotSolved -> "not-solved"
    [] st = LpStatusUndefined -> "solver-undefined"
    [] OTHER -> "unrecognized"

(* what print_solution gives for the problem at hand under status st *)
DiagnosticFor(st) ==
  IF Carrier THEN CarrierPrintSolution(params, problem, st, values)
  ELSE WarehousePrintSolution(params, problem, st, values)

(* print_solution has been called on a status that is not optimal *)
PrintedNonOptimal ==
  /\ pc \in {"done", "raised"}
  /\ problem # NoProblem
  /\ status # LpStatusOptimal

(* C16: when print_solution of either formulation has been called on a     *)
(* status that is not optimal, it has produced a diagnosis, and the        *)
(* diagnosis differs from the one it gives for every status of another     *)
(* category (infeasible, unbounded, not-solved, solver-undefined,          *)
(* unrecognized).                                                          *)
C16_DistinctDiagnosisPerCategory ==
  PrintedNonOptimal =>
    /\ pc = "done"
    /\ "diagnosis" \in DOMAIN report
    /\ \A st \in InjectedStatuses \ {LpStatusOptimal} :
         StatusCategory(st) # StatusCategory(status) => DiagnosticFor(st) # report

(* the same for the statuses that are keys of LpStatus *)
C16_KnownCategoriesDistinct ==
  (PrintedNonOptimal /\ status \in DOMAIN LpStatus) =>
    /\ pc = "done"
    /\ "diagnosis" \in DOMAIN report
    /\ \A st \in DOMAIN LpStatus \ {LpStatusOptimal, status} : DiagnosticFor(st) # report

(* the parts of a report that only the allocation sections write *)
AllocationSections ==
  {"total_cost", "active_tier", "allocation", "year_total", "carrier_summary",
   "destination_summary", "shipment_counts", "warehouse_usage",
   "fixed_cost_total", "variable_cost_total", "dest_actual", "dest_target", "delivery"}

(* C17: when print_solution has been called on any status other than       *)
(* optimal, a status code outside the known set included, it has returned  *)
(* normally with the diagnostic only: no exception has left it and no      *)
(* allocation section has been written.                                    *)
C17_NonOptimalReturnsDiagnosticOnly ==
  PrintedNonOptimal =>
    /\ pc = "done"
    /\ "exception" \notin DOMAIN report
    /\ DOMAIN report \cap AllocationSections = {}

---------------------------------------------------------------------------
(* Reconciliation of extracted totals with the targets                     *)

(* the destinations print_solution marks as not matching their target:     *)
(* the tiered model marks a destination in its summary over all years; the *)
(* network model prints actual and target side by side without a mark      *)
ReconciliationFlags ==
  IF Carrier
  THEN {dest \in Elems(params.destinations) : ~report.destination_summary[dest].ok}
  ELSE {}

(* the inbound flow of a destination in one year, over carriers and tiers *)
ExtractedInbound(year, dest) ==
  LET CT == Elems(params.carriers) \X Tiers(params)
  IN SumOver(CT, [ct \in CT |-> FlowOf(year, ct[1], ct[2], dest)])

(* C18: after print_solution on an optimal status and any variable values, *)
(* a (destination, period) is flagged as a reconciliation mismatch exactly *)
(* when its extracted inbound flow, over all sources and tiers, differs    *)
(* from its declared target.                                               *)
C18_MismatchFlaggedPerDestinationPeriod ==
  (pc = "done" /\ status = LpStatusOptimal) =>
    IF Carrier
    THEN \A dest \in Elems(params.destinations), year \in Years :
           dest \in ReconciliationFlags
             <=> ExtractedInbound(year, dest) # params.shipment_target[year + 1][dest]
    ELSE \A j \in Elems(params.destinations) :
           j \in ReconciliationFlags <=> report.dest_actual[j] # report.dest_target[j]

---------------------------------------------------------------------------
(* Raising one cost                                                        *)

(* the amounts by which a cost is raised *)
CostRaises == {1, 5}

(* the parameters with one shipment_cost entry, or one warehouse fixed     *)
(* cost, raised and everything else unchanged                              *)
RaisedParams(p) ==
  IF Carrier
  THEN {[p EXCEPT !.shipment_cost[carrier][dest] = @ + d] :
          carrier \in Elems(p.carriers), dest \in Elems(p.destinations), d \in CostRaises}
  ELSE {[p EXCEPT !.shipment_cost[i][j] = @ + d] :
          i \in Elems(p.warehouses), j \in Elems(p.destinations), d \in CostRaises}
       \cup {[p EXCEPT !.warehouse_cost[i] = @ + d] :
               i \in Elems(p.warehouses), d \in CostRaises}

Build(p) == IF Carrier THEN CarrierOptimizeShipments(p) ELSE WarehouseOptimizeShipments(p)

(* the least value of the objective obj over the assignments F *)
LeastCost(F, obj) ==
  LET costs == {Dot(obj, x) : x \in F}
  IN CHOOSE c \in costs : \A d \in costs : c <= d

(* the model built from p2 has the variables and constraints of prob, and  *)
(* its optimal objective value is not below least, that of prob; F is the  *)
(* feasible set of both                                                    *)
NotCheaper(prob, p2, F, least) ==
  \A prob2 \in {Build(p2)} :
    /\ prob2.variables = prob.variables
    /\ prob2.constraints = prob.constraints
    /\ LeastCost(F, prob2.objective) >= least

(* C19: for either formulation, the model built from the parameters with   *)
(* one shipment_cost entry or one warehouse fixed cost raised, and         *)
(* everything else unchanged, has the same variables and constraints and   *)
(* an optimal objective value that is not lower.                           *)
C19_CostMonotonicity ==
  pc = "built" =>
    \A F \in {FeasibleSet(problem)} :
      F # {} =>
        \A least \in {LeastCost(F, problem.objective)} :
          \A p2 \in RaisedParams(params) : NotCheaper(problem, p2, F, least)

C19_Witness ==
  /\ pc = "built"
  /\ Network
  /\ \E F \in {FeasibleSet(problem)} :
        /\ F # {}
        /\ \E i \in Elems(params.warehouses) :
             LET p2 == [params EXCEPT !.warehouse_cost[i] = @ + 1]
             IN LeastCost(F, Build(p2).objective) > LeastCost(F, problem.objective)
        /\ \E i \in Elems(params.warehouses), j \in Elems(params.destinations) :
             LET p2 == [params EXCEPT !.shipment_cost[i][j] = @ + 1]
             IN LeastCost(F, Build(p2).objective) = LeastCost(F, problem.objective)

---------------------------------------------------------------------------
(* Independence of the years of the tiered-discount model                  *)

(* the one-year model of a year: the same parameters with that year's      *)
(* targets only                                                            *)
YearParams(p, year) ==
  [p EXCEPT !.num_years = 1, !.shipment_target = <<p.shipment_target[year + 1]>>]

YearProblem(p, year) == CarrierOptimizeShipments(YearParams(p, year))

(* the part of an assignment that belongs to a year, as an assignment of   *)
(* the one-year model, whose only year is year 0                           *)
Restriction(x, year) ==
  [k \in {[v EXCEPT ![2] = 0] : v \in {w \in DOMAIN x : w[2] = year}} |->
     x[[k EXCEPT ![2] = year]]]

(* the assignment of the multi-year model made of one assignment per year *)
Merge(keys, perYear) == [v \in keys |-> perYear[v[2]][[v EXCEPT ![2] = 0]]]

(* x gives every variable a value of its range and satisfies every         *)
(* constraint                                                              *)
Satisfies(prob, x) ==
  /\ \A k \in DOMAIN prob.variables :
       x[prob.variables[k].key] \in prob.variables[k].lowBound .. prob.variables[k].upBound
  /\ \A c \in prob.constraints : Holds(c, x)

(* C20: in the tiered-discount model every constraint involves variables   *)
(* of one year only, the feasible assignments are exactly those whose      *)
(* restriction to each year is feasible for that year's one-year model,    *)
(* and the optimal objective value is the sum of the optimal objective     *)
(* values of the one-year models.                                          *)
C20_PeriodsIndependent ==
  (Carrier /\ pc = "built") =>
    \A F \in {FeasibleSet(problem)},
       YP \in {[year \in Years |-> YearProblem(params, year)]} :
      \A FY \in {[year \in Years |-> FeasibleSet(YP[year])]},
         keys \in {{problem.variables[k].key : k \in DOMAIN problem.variables}} :
        \A choices \in {{g \in [Years -> UNION {FY[year] : year \in Years}] :
                           \A year \in Years : g[year] \in FY[year]}} :
          /\ \A c \in problem.constraints :
               \E year \in Years : \A v \in DOMAIN c.coef : v[2] = year
          /\ \A x \in F : \A year \in Years : Satisfies(YP[year], Restriction(x, year))
          /\ \A g \in choices : Satisfies(problem, Merge(keys, g))
          /\ Cardinality(F) = Cardinality(choices)
          /\ F # {} =>
               LeastCost(F, problem.objective)
                 = SumOver(Years, [year \in Years |->
                                     LeastCost(FY[year], YP[year].objective)])

C20_Witness ==
  /\ Carrier
  /\ pc = "built"
  /\ params.num_years = 2
  /\ params.shipment_target[1]["A"] = 1
  /\ params.shipment_target[2]["A"] = 2
  /\ params.tier_min_quantity[2] = 2
  /\ FeasibleSet(problem) # {}
  /\ \E x \in FeasibleSet(problem) : x[tier_flag(0, "UPS", 0)] = 1 /\ x[tier_flag(1, "UPS", 1)] = 1

(* the tiers of (year, carrier, dest) that carry non-zero flow *)
NonZeroTiers(year, carrier, dest) ==
  {tier \in Tiers(params) : FlowOf(year, carrier, tier, dest) # 0}

(* C21: in every assignment that satisfies the constraints of the          *)
(* tiered-discount model, for every (year, carrier, destination) at most    *)
(* one tier carries non-zero flow, and it is the carrier's single active    *)
(* tier of that year; so the per-destination sum over tiers that            *)
(* print_solution computes has at most one non-zero term, the flow at the   *)
(* active tier.                                                            *)
C21_SingleActiveTierFlow ==
  (Carrier /\ Assigned) =>
    \A year \in Years, carrier \in Elems(params.carriers),
       dest \in Elems(params.destinations) :
      /\ Cardinality(NonZeroTiers(year, carrier, dest)) <= 1
      /\ \A tier \in NonZeroTiers(year, carrier, dest) :
           /\ ActiveTier(params, values, year, carrier) = <<tier>>
           /\ \A other \in Tiers(params) \ {tier} : FlagOf(year, carrier, other) = 0
      /\ (pc = "done" /\ status = LpStatusOptimal) =>
           /\ report.active_tier[<<year, carrier>>] # << >>
           /\ report.allocation[<<year, carrier, dest>>].dest_shipments
                = FlowOf(year, carrier, report.active_tier[<<year, carrier>>][1], dest)

(* a printed optimal solution where a carrier ships through tier 1 *)
C21_Witness ==
  /\ Carrier /\ pc = "done" /\ status = LpStatusOptimal
  /\ \E year \in Years, carrier \in Elems(params.carriers),
        dest \in Elems(params.destinations) :
       /\ NonZeroTiers(year, carrier, dest) = {1}
       /\ report.active_tier[<<year, carrier>>] = <<1>>
       /\ report.allocation[<<year, carrier, dest>>].dest_shipments > 0

(* the cost of (year, carrier, dest) as the objective counts it: the sum    *)
(* over tiers of flow * shipment_cost * discount_rate, in hundredths        *)
ObjectiveShare(year, carrier, dest) ==
  SumOver(Tiers(params),
          [tier \in Tiers(params) |->
             FlowOf(year, carrier, tier, dest)
               * params.shipment_cost[carrier][dest]
               * params.discount_rate[carrier][tier + 1]])

ReportedYearTotals ==
  SumOver(Years, [year \in Years |-> report.year_total[year].year_total_cost])

PrintedOptimalCarrier == Carrier /\ pc = "done" /\ status = LpStatusOptimal

(* C22: for an optimal solution of the tiered-discount model, the cost      *)
(* print_solution reports for each (year, carrier, destination) equals the  *)
(* sum over tiers of flow * shipment_cost * discount_rate, so the sum of    *)
(* the YEAR TOTAL costs equals the Optimal Total Cost.                      *)
C22_ReportedCostMatchesObjective ==
  PrintedOptimalCarrier =>
    /\ \A year \in Years, carrier \in Elems(params.carriers),
          dest \in Elems(params.destinations) :
         report.allocation[<<year, carrier, dest>>].dest_cost
           = ObjectiveShare(year, carrier, dest)
    /\ ReportedYearTotals = report.total_cost

(* C22, where every carrier used charges a unit cost of 1: the reported     *)
(* costs agree with the objective                                          *)
C22_UnitCostOneReportMatches ==
  (/\ PrintedOptimalCarrier
   /\ \A carrier \in Elems(params.carriers), dest \in Elems(params.destinations) :
        params.shipment_cost[carrier][dest] = 1) =>
    /\ \A year \in Years, carrier \in Elems(params.carriers),
          dest \in Elems(params.destinations) :
         report.allocation[<<year, carrier, dest>>].dest_cost
           = ObjectiveShare(year, carrier, dest)
    /\ ReportedYearTotals = report.total_cost

PrintedOptimalNetwork == Network /\ pc = "done" /\ status = LpStatusOptimal

(* no warehouse or destination name contains the separator "_" *)
SeparatorFreeNames ==
  /\ \A i \in Elems(params.warehouses) : Len(i) = 1
  /\ \A j \in Elems(params.destinations) : Len(j) = 1

(* C23: for an optimal solution of the network model, Total Fixed Costs     *)
(* plus Total Variable Costs, as print_solution computes them from the      *)
(* extracted values, equals the objective value of the model.              *)
C23_ReportedCostsSumToObjective ==
  PrintedOptimalNetwork =>
    report.fixed_cost_total + report.variable_cost_total = report.total_cost

(* C23, where no name contains the separator: the two totals add up to the  *)
(* objective value                                                         *)
C23_SeparatorFreeCostsSumToObjective ==
  (PrintedOptimalNetwork /\ SeparatorFreeNames) =>
    report.fixed_cost_total + report.variable_cost_total = report.total_cost

(* C24: for every warehouse i and destination j declared in the network     *)
(* model, print_solution's parsing of shipment_count_{i}_{j} yields the     *)
(* key (i, j) and of warehouse_usage_{i} yields i: the extracted            *)
(* dictionaries hold the values of exactly those variables and no declared  *)
(* pair falls back to the default 0.                                       *)
C24_ExtractionRoundTrip ==
  PrintedOptimalNetwork =>
    /\ \A i \in Elems(params.warehouses), j \in Elems(params.destinations) :
         /\ <<i, j>> \in DOMAIN report.shipment_counts
         /\ report.shipment_counts[<<i, j>>] = CountOf(i, j)
    /\ \A i \in Elems(params.warehouses) :
         /\ i \in DOMAIN report.warehouse_usage
         /\ report.warehouse_usage[i] = UsageOf(i)
    /\ DOMAIN report.shipment_counts
         = Elems(params.warehouses) \X Elems(params.destinations)
    /\ DOMAIN report.warehouse_usage = Elems(params.warehouses)

(* C24, the half about warehouse_usage_{i}: everything after the prefix is  *)
(* the key, so the usage of every declared warehouse is recovered           *)
C24_UsageRoundTrip ==
  PrintedOptimalNetwork =>
    /\ DOMAIN report.warehouse_usage = Elems(params.warehouses)
    /\ \A i \in Elems(params.warehouses) : report.warehouse_usage[i] = UsageOf(i)

(* C24, where no name contains the separator: the round trip is exact *)
C24_SeparatorFreeRoundTrip ==
  (PrintedOptimalNetwork /\ SeparatorFreeNames) =>
    /\ DOMAIN report.shipment_counts
         = Elems(params.warehouses) \X Elems(params.destinations)
    /\ \A i \in Elems(params.warehouses), j \in Elems(params.destinations) :
         report.shipment_counts[<<i, j>>] = CountOf(i, j)

(* every carrier at tier 0 in every year and the whole of each target on    *)
(* the first carrier, at tier 0                                            *)
TierZeroAssignment(p) ==
  [key \in {shipment_at_tier(year, carrier, tier, dest) :
              year \in range(p.num_years), carrier \in Elems(p.carriers),
              tier \in Tiers(p), dest \in Elems(p.destinations)}
            \cup {tier_flag(year, carrier, tier) :
                    year \in range(p.num_years), carrier \in Elems(p.carriers),
                    tier \in Tiers(p)} |->
     IF key[1] = "tier" THEN (IF key[4] = 0 THEN 1 ELSE 0)
     ELSE IF key[3] = p.carriers[1] /\ key[4] = 0
          THEN p.shipment_target[key[2] + 1][key[5]]
          ELSE 0]

(* at least one carrier, tier_min_quantity[0] = 0, targets non-negative *)
WellFormed(p) ==
  /\ Len(p.carriers) >= 1
  /\ p.tier_min_quantity[1] = 0
  /\ \A year \in range(p.num_years), dest \in Elems(p.destinations) :
       p.shipment_target[year + 1][dest] >= 0

(* C25: the tiered-discount model is feasible for every well-formed input   *)
(* (at least one carrier, tier_min_quantity[0] = 0, non-negative integer    *)
(* targets): the assignment with every carrier at tier 0 and the whole of   *)
(* each target on one carrier satisfies all constraints, and the solver     *)
(* never returns the infeasible status.                                    *)
C25_WellFormedInputFeasible ==
  (Carrier /\ WellFormed(params)) =>
    /\ pc \in {"built", "solved", "done"} =>
         Satisfies(problem, TierZeroAssignment(params))
    /\ pc \in {"solved", "done"} => status # LpStatusInfeasible
    /\ pc = "done" => report.diagnosis # "PROBLEM IS INFEASIBLE"
    /\ pc # "raised"

(* a well-formed input with a positive target below the minimum of tier 1:  *)
(* the solver returns the tier-0 assignment as an optimal solution         *)
C25_Witness ==
  /\ Carrier /\ WellFormed(params) /\ pc = "done" /\ status = LpStatusOptimal
  /\ params.shipment_target[1][params.destinations[1]] > 0
  /\ params.shipment_target[1][params.destinations[1]] < params.tier_min_quantity[2]
  /\ values = TierZeroAssignment(params)
  /\ report.diagnosis = "Optimal"

(* the total quantity warehouse i ships *)
Outbound(i) ==
  SumOver(Elems(params.destinations),
          [j \in Elems(params.destinations) |-> CountOf(i, j)])

(* C26: in every optimal solution of the network model, a warehouse whose   *)
(* fixed activation cost is strictly positive has warehouse_usage = 1 only  *)
(* if it ships a positive quantity to at least one destination: such a      *)
(* warehouse with zero total flow is not activated, and the report shows    *)
(* it inactive with a fixed cost of 0.                                      *)
C26_IdleWarehouseNotActivated ==
  (Network /\ Solved) =>
    \A i \in Elems(params.warehouses) :
      params.warehouse_cost[i] > 0 =>
        /\ UsageOf(i) = 1 =>
             \E j \in Elems(params.destinations) : CountOf(i, j) > 0
        /\ Outbound(i) = 0 => UsageOf(i) = 0
        /\ (pc = "done" /\ Outbound(i) = 0) =>
             get(report.warehouse_usage, i, 0) = 0

(* two warehouses with a positive fixed cost and capacity to serve: one     *)
(* ships the whole target and is active, the other ships nothing and is     *)
(* reported inactive                                                       *)
C26_Witness ==
  /\ Network /\ Solved /\ pc = "done"
  /\ Len(params.warehouses) = 2
  /\ \A i \in Elems(params.warehouses) :
       /\ params.warehouse_cost[i] > 0
       /\ \A j \in Elems(params.destinations) :
            params.shipment_capacity[i][j] >= params.target_distribution[j]
  /\ \E i, k \in Elems(params.warehouses) :
       /\ Outbound(i) > 0 /\ UsageOf(i) = 1
       /\ Outbound(k) = 0 /\ report.warehouse_usage[k] = 0

(* with a fixed cost of 0 an idle warehouse may be active at the optimum *)
C26_FreeIdleWarehouseActive ==
  /\ Network /\ Solved
  /\ \E i \in Elems(params.warehouses) :
       params.warehouse_cost[i] = 0 /\ Outbound(i) = 0 /\ UsageOf(i) = 1

====
